---- MODULE Spec2Model ----
\* Voice capture and endpoint detection of autoAI (core/src/io/voice.rs) together
\* with the interaction loop that drives it (core/src/agent/runtime.rs).
\*
\* Samples are integers in units of 0.01 full-scale amplitude, so that the energy
\* threshold 0.01 of the source is the amplitude 1.  Texts are sequences of
\* one-character strings.
EXTENDS Integers, Sequences, FiniteSets, TLC

\* ---------------------------------------------------------------- bounds
MaxProduced == 4    \* chunks the audio device delivers during one run
MaxChunkLen == 2    \* longest chunk the device delivers
MaxSilence == 2     \* largest silence threshold (samples) a configuration gives
MaxCap == 3         \* largest max-duration cap (samples) a configuration gives
MaxN == 3           \* most trailing silent chunks of the scripted scenario
MaxOverflow == 2    \* hardware buffers delivered beyond the channel's capacity
MaxResampleLen == 7 \* longest segment handed to the resampler on its own
MaxRetries == 4     \* largest max_retries a configuration gives
MaxCalls == 4       \* calls made on the output sink during one run
MaxTurns == 3       \* turns the input source brings during one run

\* ---------------------------------------------------------------- program constants
WHISPER_SAMPLE_RATE == 16000
ENERGY_THRESHOLD == 1
ChannelCapacity == 64
ResamplerChunkSize == 1024
MAX_INPUT_LENGTH == 10000
RetryBaseDelayMs == 100
FLUSH_THRESHOLD == 1024

\* ---------------------------------------------------------------- input alphabets
Samples == {0, 1, 2}
DeviceRates == {16000, 48000}
WhiteSpace == {" ", "\n"}

\* Hardware buffers the device may deliver: empty, silent at exactly the
\* threshold, voiced, and voiced with a sample below the threshold in it.
Chunks == { <<>>, <<1>>, <<2>>, <<0, 2>> }

T(s) == [ok |-> TRUE, text |-> s]
ReadFailed == [ok |-> FALSE, text |-> <<>>]

\* What the engine may hand back for one inference: a list of segments, each
\* readable (with its text) or not.
EngineOutputs ==
    { <<>>,
      << T(<<"\n", " ">>) >>,
      << T(<<" ">>), ReadFailed, T(<<>>) >>,
      << T(<<"o", "k">>) >>,
      << T(<<" ", "o">>), T(<<"k", " ">>) >>,
      << T(<<"o", " ">>), T(<<"k", "\n">>) >>,
      << T(<<"o">>), ReadFailed, T(<<"k">>) >> }

VARIABLES
    silence_threshold_sample,   \* record_audio: silence threshold in samples
    max_samples,                \* record_audio: max-duration cap in samples
    device_sample_rate,         \* VoiceInput.device_sample_rate
    stop_signal,                \* VoiceInput.stop_signal
    stream,                     \* "none" | "playing": the cpal stream of the capture
    senders,                    \* live Sender handles of the capture's channel
    channel,                    \* chunks queued between callback and consumer
    device_on,                  \* the device still delivers hardware buffers
    produced,                   \* hardware buffers delivered so far
    audio_buffer,               \* record_audio: audio_buffer
    state,                      \* record_audio: state (VoiceState)
    heard,                      \* chunks received and processed by this capture
    exit_reason,                \* how the receive loop of this capture ended
    pc,                         \* position of the next() call in flight
    audio,                      \* samples handed to transcribe
    segments,                   \* segments of the inference being collected
    result,                     \* value returned by next()
    cycles,                     \* captures started by the next() call in flight
    engine_log,                 \* what the engine returned to this next() call, in order
    loop_pc,                    \* run_main_loop: "select" | "exited"
    run_result,                 \* value returned by run_main_loop
    scenario,                   \* scripted scenario: the whole chunk sequence
    script                      \* scripted scenario: chunks not yet delivered

VARIABLES
    max_retries,                \* OllamaClient.max_retries
    input_text,                 \* Agent::process: text, the text of the turn
    chat_pc,                    \* position of the Agent::process call in flight
    chat_calls,                 \* calls of LlmProvider::chat made by this process call
    attempt,                    \* chat_stream_with_retry: attempt
    last_error,                 \* chat_stream_with_retry: last_error
    request_log,                \* outcome of every request of this call, in order
    delays,                     \* milliseconds slept by this call, in order
    chat_result                 \* value returned by Agent::process

llmVars == << max_retries, input_text, chat_pc, chat_calls, attempt, last_error, request_log,
              delays, chat_result >>

VARIABLES
    buffer,                     \* TextOutput.buffer
    stdout,                     \* bytes written to the standard output, in order
    stderr,                     \* bytes written to the standard error, in order
    emitted,                    \* bytes handed to emit and emit_chunk, in call order
    last_call,                  \* the method of TextOutput called last
    call_no,                    \* calls made on the TextOutput so far
    io_failed                   \* a call on the TextOutput has returned an error

outVars == << buffer, stdout, stderr, emitted, last_call, call_no, io_failed >>

VARIABLES
    exit_cause,                 \* run_main_loop: what made it leave its loop
    turns,                      \* run_main_loop: turns taken from the input source
    turn_outcome,               \* value returned by the last process_user_input
    sink_calls                  \* calls on the output sink made by the last pass
                                \* of the loop outside process_user_input, in order

sessVars == << exit_cause, turns, turn_outcome, sink_calls >>

otherVars == << llmVars, outVars, sessVars >>
notLlmVars == << outVars, sessVars >>
notOutVars == << llmVars, sessVars >>
inputVars == << silence_threshold_sample, max_samples, device_sample_rate, stop_signal,
                stream, senders, channel, device_on, produced, audio_buffer, state,
                heard, exit_reason, pc, audio, segments, result, cycles, engine_log,
                scenario, script >>

vars == << silence_threshold_sample, max_samples, device_sample_rate, stop_signal,
           stream, senders, channel, device_on, produced, audio_buffer, state,
           heard, exit_reason, pc, audio, segments, result, cycles, engine_log,
           loop_pc, run_result, scenario, script, otherVars >>

configVars == << silence_threshold_sample, max_samples, device_sample_rate >>
voiceVars == << silence_threshold_sample, max_samples, device_sample_rate, stop_signal,
                stream, senders, channel, device_on, produced, audio_buffer, state,
                heard, exit_reason, pc, audio, segments, result, cycles, engine_log,
                loop_pc, run_result, scenario, script >>
scenarioVars == << scenario, script >>

\* ---------------------------------------------------------------- pure helpers
RECURSIVE SumSq(_)
SumSq(samples) ==
    IF samples = <<>> THEN 0
    ELSE Head(samples) * Head(samples) + SumSq(Tail(samples))

\* Variant: a chunk whose energy equals the threshold counts as voiced.
has_voice_at_threshold(chunk) ==
    IF chunk = <<>> THEN FALSE
    ELSE SumSq(chunk) >= ENERGY_THRESHOLD * ENERGY_THRESHOLD * Len(chunk)

\* calculate_energy(chunk) > ENERGY_THRESHOLD.  The energy is
\* sqrt(sum_sq / len), and 0 for an empty chunk; the square root is monotone, so
\* the comparison is made on the squares.
has_voice(chunk) ==
    IF chunk = <<>> THEN FALSE
    ELSE SumSq(chunk) > ENERGY_THRESHOLD * ENERGY_THRESHOLD * Len(chunk)

WaitingForVoice == [tag |-> "WaitingForVoice", silence_sample |-> 0]
Recording == [tag |-> "Recording", silence_sample |-> 0]
SilenceDetected(n) == [tag |-> "SilenceDetected", silence_sample |-> n]

\* Variant: chunks received while waiting for voice are buffered too.
segment_step_buffers_waiting(st, buf, chunk) ==
    CASE st.tag = "WaitingForVoice" ->
            IF has_voice(chunk)
            THEN [state |-> Recording, buffer |-> buf \o chunk, brk |-> FALSE]
            ELSE [state |-> WaitingForVoice, buffer |-> buf \o chunk, brk |-> FALSE]
      [] st.tag = "Recording" ->
            IF ~has_voice(chunk)
            THEN [state |-> SilenceDetected(Len(chunk)), buffer |-> buf \o chunk,
                  brk |-> FALSE]
            ELSE [state |-> Recording, buffer |-> buf \o chunk, brk |-> FALSE]
      [] OTHER ->
            IF has_voice(chunk)
            THEN [state |-> Recording, buffer |-> buf \o chunk, brk |-> FALSE]
            ELSE IF st.silence_sample + Len(chunk) >= silence_threshold_sample
                 THEN [state |-> st, buffer |-> buf \o chunk, brk |-> TRUE]
                 ELSE [state |-> SilenceDetected(st.silence_sample + Len(chunk)),
                       buffer |-> buf \o chunk, brk |-> FALSE]

\* Variant: voice returning after a silence restarts the buffer at that chunk.
segment_step_restarts_buffer(st, buf, chunk) ==
    CASE st.tag = "WaitingForVoice" ->
            IF has_voice(chunk)
            THEN [state |-> Recording, buffer |-> buf \o chunk, brk |-> FALSE]
            ELSE [state |-> WaitingForVoice, buffer |-> buf, brk |-> FALSE]
      [] st.tag = "Recording" ->
            IF ~has_voice(chunk)
            THEN [state |-> SilenceDetected(Len(chunk)), buffer |-> buf \o chunk,
                  brk |-> FALSE]
            ELSE [state |-> Recording, buffer |-> buf \o chunk, brk |-> FALSE]
      [] OTHER ->
            IF has_voice(chunk)
            THEN [state |-> Recording, buffer |-> chunk, brk |-> FALSE]
            ELSE IF st.silence_sample + Len(chunk) >= silence_threshold_sample
                 THEN [state |-> st, buffer |-> buf \o chunk, brk |-> TRUE]
                 ELSE [state |-> SilenceDetected(st.silence_sample + Len(chunk)),
                       buffer |-> buf \o chunk, brk |-> FALSE]

\* Variant: voice returning after a silence keeps the silence count running.
segment_step_keeps_count(st, buf, chunk) ==
    CASE st.tag = "WaitingForVoice" ->
            IF has_voice(chunk)
            THEN [state |-> Recording, buffer |-> buf \o chunk, brk |-> FALSE]
            ELSE [state |-> WaitingForVoice, buffer |-> buf, brk |-> FALSE]
      [] st.tag = "Recording" ->
            IF ~has_voice(chunk)
            THEN [state |-> SilenceDetected(Len(chunk)), buffer |-> buf \o chunk,
                  brk |-> FALSE]
            ELSE [state |-> Recording, buffer |-> buf \o chunk, brk |-> FALSE]
      [] OTHER ->
            IF has_voice(chunk)
            THEN [state |-> st, buffer |-> buf \o chunk, brk |-> FALSE]
            ELSE IF st.silence_sample + Len(chunk) >= silence_threshold_sample
                 THEN [state |-> st, buffer |-> buf \o chunk, brk |-> TRUE]
                 ELSE [state |-> SilenceDetected(st.silence_sample + Len(chunk)),
                       buffer |-> buf \o chunk, brk |-> FALSE]

\* Variant: the silence count is the length of the last silent chunk only.
segment_step_counts_last_only(st, buf, chunk) ==
    CASE st.tag = "WaitingForVoice" ->
            IF has_voice(chunk)
            THEN [state |-> Recording, buffer |-> buf \o chunk, brk |-> FALSE]
            ELSE [state |-> WaitingForVoice, buffer |-> buf, brk |-> FALSE]
      [] st.tag = "Recording" ->
            IF ~has_voice(chunk)
            THEN [state |-> SilenceDetected(Len(chunk)), buffer |-> buf \o chunk,
                  brk |-> FALSE]
            ELSE [state |-> Recording, buffer |-> buf \o chunk, brk |-> FALSE]
      [] OTHER ->
            IF has_voice(chunk)
            THEN [state |-> Recording, buffer |-> buf \o chunk, brk |-> FALSE]
            ELSE IF Len(chunk) >= silence_threshold_sample
                 THEN [state |-> st, buffer |-> buf \o chunk, brk |-> TRUE]
                 ELSE [state |-> SilenceDetected(Len(chunk)),
                       buffer |-> buf \o chunk, brk |-> FALSE]

\* One pass through the match of the receive loop: the new state, the new
\* buffer, and whether the silence arm left the loop (break).
segment_step(st, buf, chunk) ==
    CASE st.tag = "WaitingForVoice" ->
            IF has_voice(chunk)
            THEN [state |-> Recording, buffer |-> buf \o chunk, brk |-> FALSE]
            ELSE [state |-> WaitingForVoice, buffer |-> buf, brk |-> FALSE]
      [] st.tag = "Recording" ->
            IF ~has_voice(chunk)
            THEN [state |-> SilenceDetected(Len(chunk)), buffer |-> buf \o chunk,
                  brk |-> FALSE]
            ELSE [state |-> Recording, buffer |-> buf \o chunk, brk |-> FALSE]
      [] OTHER ->
            IF has_voice(chunk)
            THEN [state |-> Recording, buffer |-> buf \o chunk, brk |-> FALSE]
            ELSE IF st.silence_sample + Len(chunk) >= silence_threshold_sample
                 THEN [state |-> st, buffer |-> buf \o chunk, brk |-> TRUE]
                 ELSE [state |-> SilenceDetected(st.silence_sample + Len(chunk)),
                       buffer |-> buf \o chunk, brk |-> FALSE]

\* Variant: the buffer is let grow to twice the cap.
cap_reached_at_twice(buf) == Len(buf) >= 2 * max_samples

\* Variant: the cap is reached only once the buffer exceeds it.
cap_reached_strict(buf) == Len(buf) > max_samples

\* The check after the match: the buffer has reached the cap.
cap_reached(buf) == Len(buf) >= max_samples

RECURSIVE GCD(_, _)
GCD(a, b) == IF b = 0 THEN a ELSE GCD(b, a % b)

CeilDiv(a, b) == (a + b - 1) \div b

\* FftFixedInOut::new(device rate, 16000, 1024, 1): the frame sizes are the
\* smallest multiples of rate/gcd and 16000/gcd that cover the wanted 1024.
fft_chunks == CeilDiv(ResamplerChunkSize, WHISPER_SAMPLE_RATE \div GCD(device_sample_rate, WHISPER_SAMPLE_RATE))
input_frames_next == fft_chunks * (device_sample_rate \div GCD(device_sample_rate, WHISPER_SAMPLE_RATE))
output_frames_next == fft_chunks * (WHISPER_SAMPLE_RATE \div GCD(device_sample_rate, WHISPER_SAMPLE_RATE))

Min(a, b) == IF a <= b THEN a ELSE b

\* A sample computed by the resampling library (its value is not modelled).
Resampled == 0 - 1

\* Variant: the library resamples at equal rates too.
resample_audio_without_shortcut(buf) ==
    LET expected_len == (Len(buf) * WHISPER_SAMPLE_RATE) \div device_sample_rate
        out_len == CeilDiv(Len(buf), input_frames_next) * output_frames_next
    IN  [i \in 1..Min(out_len, expected_len) |-> Resampled]

\* Variant: the output keeps the whole last frame, padding included.
resample_audio_untruncated(buf) ==
    IF device_sample_rate = WHISPER_SAMPLE_RATE THEN buf
    ELSE LET out_len == CeilDiv(Len(buf), input_frames_next) * output_frames_next
         IN  [i \in 1..out_len |-> Resampled]

\* resample_audio on success: the input itself at equal rates, otherwise one
\* output frame per (zero-padded) input frame, truncated to expected_len.
resample_audio(buf) ==
    IF device_sample_rate = WHISPER_SAMPLE_RATE THEN buf
    ELSE LET expected_len == (Len(buf) * WHISPER_SAMPLE_RATE) \div device_sample_rate
             out_len == CeilDiv(Len(buf), input_frames_next) * output_frames_next
         IN  [i \in 1..Min(out_len, expected_len) |-> Resampled]

RECURSIVE TrimStart(_)
TrimStart(s) ==
    IF s # <<>> /\ Head(s) \in WhiteSpace THEN TrimStart(Tail(s)) ELSE s

RECURSIVE TrimEnd(_)
TrimEnd(s) ==
    IF s # <<>> /\ s[Len(s)] \in WhiteSpace THEN TrimEnd(SubSeq(s, 1, Len(s) - 1)) ELSE s

Trim(s) == TrimEnd(TrimStart(s))

\* transcribe, the loop over the segments: the text of every segment that can
\* be read is pushed onto the result, an unreadable segment is skipped.
RECURSIVE push_segments(_)
push_segments(segs) ==
    IF segs = <<>> THEN <<>>
    ELSE (IF Head(segs).ok THEN Head(segs).text ELSE <<>>) \o push_segments(Tail(segs))

\* Variant: the concatenation is returned without trimming.
transcribe_text_untrimmed(segs) == push_segments(segs)

\* The text transcribe returns: the concatenation, trimmed.
transcribe_text(segs) == Trim(push_segments(segs))

\* ---------------------------------------------------------------- results
NoResult == [kind |-> "none", text |-> <<>>, err |-> "none"]
OkSome(t) == [kind |-> "Some", text |-> t, err |-> "none"]
OkNone == [kind |-> "None", text |-> <<>>, err |-> "none"]
Err(e) == [kind |-> "Err", text |-> <<>>, err |-> e]

\* Variant: the locals are released but the stream is left running.
NoCapture_keeps_stream ==
    /\ stream' = stream
    /\ senders' = senders
    /\ channel' = <<>>
    /\ audio_buffer' = <<>>
    /\ state' = WaitingForVoice

\* The locals of record_audio, as they are when no capture is in progress.
NoCapture ==
    /\ stream' = "none"
    /\ senders' = 0
    /\ channel' = <<>>
    /\ audio_buffer' = <<>>
    /\ state' = WaitingForVoice

\* ---------------------------------------------------------------- channel
\* Variant: a full channel makes room by evicting its oldest chunk.
try_send_evicts_oldest(ch, data) ==
    IF Len(ch) < ChannelCapacity THEN Append(ch, data) ELSE Append(Tail(ch), data)

\* Variant: the chunk is queued in front of the chunks already waiting.
try_send_to_front(ch, data) ==
    IF Len(ch) < ChannelCapacity THEN << data >> \o ch ELSE ch

\* tx.try_send(data) with its result discarded: the chunk is queued behind the
\* others when the channel has room and is lost when it is full; the call
\* returns at once either way.
try_send(ch, data) ==
    IF Len(ch) < ChannelCapacity THEN Append(ch, data) ELSE ch

\* ---------------------------------------------------------------- next()
\* Variant: a capture starts with the stop signal as the last call left it.
begin_capture_keeps_stop(stream_ok) ==
    /\ stop_signal' = stop_signal
    /\ exit_reason' = "none"
    /\ heard' = <<>>
    /\ audio' = <<>>
    /\ segments' = <<>>
    /\ IF stream_ok
       THEN /\ stream' = "playing"
            /\ senders' = 2
            /\ channel' = <<>>
            /\ audio_buffer' = <<>>
            /\ state' = WaitingForVoice
            /\ pc' = "recv"
            /\ result' = NoResult
       ELSE /\ NoCapture
            /\ pc' = "returned"
            /\ result' = Err("Audio")

\* The head of next() up to the first await of record_audio: the stop signal
\* is reset, the channel and the stream are built and the stream is started.
\* A stream that cannot be built or started makes next() return the error.
begin_capture(stream_ok) ==
    /\ stop_signal' = FALSE
    /\ exit_reason' = "none"
    /\ heard' = <<>>
    /\ audio' = <<>>
    /\ segments' = <<>>
    /\ IF stream_ok
       THEN /\ stream' = "playing"
            /\ senders' = 2
            /\ channel' = <<>>
            /\ audio_buffer' = <<>>
            /\ state' = WaitingForVoice
            /\ pc' = "recv"
            /\ result' = NoResult
       ELSE /\ NoCapture
            /\ pc' = "returned"
            /\ result' = Err("Audio")

\* run_main_loop polls input.next(): a new call of next() starts.
CallNext ==
    /\ loop_pc = "select"
    /\ pc = "idle"
    /\ \E stream_ok \in BOOLEAN : begin_capture(stream_ok)
    /\ cycles' = 1
    /\ engine_log' = <<>>
    /\ UNCHANGED << otherVars, configVars, device_on, produced, loop_pc, run_result, scenarioVars >>

\* The input callback of the stream: one non-blocking send of a copy of the
\* hardware buffer; the chunk is lost when the channel is full.
AudioCallback ==
    /\ stream = "playing"
    /\ device_on
    /\ produced < MaxProduced
    /\ \E data \in Chunks : channel' = try_send(channel, data)
    /\ produced' = produced + 1
    /\ UNCHANGED << otherVars, configVars, stop_signal, stream, senders, device_on, audio_buffer,
                    state, heard, exit_reason, pc, audio, segments, result, cycles,
                    engine_log, loop_pc, run_result, scenarioVars >>

\* The device stops delivering hardware buffers (unplugged, suspended).
DeviceStops ==
    /\ device_on
    /\ stream = "playing"
    /\ device_on' = FALSE
    /\ UNCHANGED << otherVars, configVars, stop_signal, stream, senders, channel, produced,
                    audio_buffer, state, heard, exit_reason, pc, audio, segments,
                    result, cycles, engine_log, loop_pc, run_result, scenarioVars >>

\* VoiceInput::stop, called from outside while the input source is in use.
Stop ==
    /\ loop_pc = "select"
    /\ ~stop_signal
    /\ stop_signal' = TRUE
    /\ UNCHANGED << otherVars, configVars, stream, senders, channel, device_on, produced,
                    audio_buffer, state, heard, exit_reason, pc, audio, segments,
                    result, cycles, engine_log, loop_pc, run_result, scenarioVars >>

\* One iteration of the receive loop, from rx.recv() returning to the next
\* await or to the end of the loop.  recv() returns None only when the channel
\* is empty and no Sender is left.
RecvChunk ==
    /\ pc = "recv"
    /\ channel # <<>> \/ senders = 0
    /\ IF channel = <<>>
       THEN /\ exit_reason' = "closed"
            /\ pc' = "after_loop"
            /\ UNCHANGED << channel, audio_buffer, state, heard >>
       ELSE LET chunk == Head(channel)
                step == segment_step(state, audio_buffer, chunk)
            IN  /\ channel' = Tail(channel)
                /\ IF stop_signal
                   THEN /\ exit_reason' = "stop"
                        /\ pc' = "after_loop"
                        /\ UNCHANGED << audio_buffer, state, heard >>
                   ELSE /\ audio_buffer' = step.buffer
                        /\ state' = step.state
                        /\ heard' = Append(heard, chunk)
                        /\ exit_reason' = IF step.brk THEN "silence"
                                          ELSE IF cap_reached(step.buffer) THEN "cap"
                                          ELSE "none"
                        /\ pc' = IF step.brk \/ cap_reached(step.buffer)
                                 THEN "after_loop" ELSE "recv"
    /\ UNCHANGED << otherVars, configVars, stop_signal, stream, senders, device_on, produced,
                    audio, segments, result, cycles, engine_log, loop_pc, run_result,
                    scenarioVars >>

\* The samples of the chunks still queued in the channel.
RECURSIVE Unread(_)
Unread(ch) == IF ch = <<>> THEN <<>> ELSE Head(ch) \o Unread(Tail(ch))

UnreadSamples == Unread(channel)

\* Variant: the chunks still queued when the loop ends are added to the buffer.
AfterLoop_drains_channel ==
    /\ pc = "after_loop"
    /\ NoCapture
    /\ IF audio_buffer = <<>>
       THEN /\ result' = Err("NoSignal")
            /\ pc' = "returned"
            /\ audio' = <<>>
       ELSE \E resample_ok \in BOOLEAN :
               IF resample_ok \/ device_sample_rate = WHISPER_SAMPLE_RATE
               THEN /\ audio' = resample_audio(audio_buffer \o UnreadSamples)
                    /\ pc' = "transcribe"
                    /\ result' = result
               ELSE /\ audio' = <<>>
                    /\ pc' = "returned"
                    /\ result' = Err("Audio")
    /\ UNCHANGED << otherVars, configVars, stop_signal, device_on, produced, heard, exit_reason,
                    segments, cycles, engine_log, loop_pc, run_result, scenarioVars >>

\* Variant: the buffer goes to the resampler without the test for emptiness.
AfterLoop_skips_empty_check ==
    /\ pc = "after_loop"
    /\ NoCapture
    /\ \E resample_ok \in BOOLEAN :
          IF resample_ok \/ device_sample_rate = WHISPER_SAMPLE_RATE
          THEN /\ audio' = resample_audio(audio_buffer)
               /\ pc' = "transcribe"
               /\ result' = result
          ELSE /\ audio' = <<>>
               /\ pc' = "returned"
               /\ result' = Err("Audio")
    /\ UNCHANGED << otherVars, configVars, stop_signal, device_on, produced, heard, exit_reason,
                    segments, cycles, engine_log, loop_pc, run_result, scenarioVars >>

\* record_audio after the loop: the stream is dropped; an empty buffer is the
\* "no audio signal" error, which next() returns; otherwise the buffer is
\* resampled (the library may fail when the rates differ) and handed to
\* transcribe.
AfterLoop ==
    /\ pc = "after_loop"
    /\ NoCapture
    /\ IF audio_buffer = <<>>
       THEN /\ result' = Err("NoSignal")
            /\ pc' = "returned"
            /\ audio' = <<>>
       ELSE \E resample_ok \in BOOLEAN :
               IF resample_ok \/ device_sample_rate = WHISPER_SAMPLE_RATE
               THEN /\ audio' = resample_audio(audio_buffer)
                    /\ pc' = "transcribe"
                    /\ result' = result
               ELSE /\ audio' = <<>>
                    /\ pc' = "returned"
                    /\ result' = Err("Audio")
    /\ UNCHANGED << otherVars, configVars, stop_signal, device_on, produced, heard, exit_reason,
                    segments, cycles, engine_log, loop_pc, run_result, scenarioVars >>

\* transcribe up to the segment loop: the engine runs on the audio; a failure
\* to create the state, to run the inference or to count the segments is
\* returned by next().
Transcribe ==
    /\ pc = "transcribe"
    /\ \E engine_ok \in BOOLEAN :
          IF engine_ok
          THEN /\ \E out \in EngineOutputs : segments' = out
               /\ pc' = "collect"
               /\ result' = result
          ELSE /\ segments' = <<>>
               /\ pc' = "returned"
               /\ result' = Err("SpeechRecognition")
    /\ audio' = <<>>
    /\ UNCHANGED << otherVars, configVars, stop_signal, stream, senders, channel, device_on,
                    produced, audio_buffer, state, heard, exit_reason, cycles,
                    engine_log, loop_pc, run_result, scenarioVars >>

\* Variant: the second empty text in a row ends the call with an error.
Collect_caps_retries ==
    /\ pc = "collect"
    /\ LET text == transcribe_text(segments)
       IN  /\ engine_log' = Append(engine_log, segments)
           /\ IF text = <<>> /\ cycles < 2
              THEN /\ \E stream_ok \in BOOLEAN : begin_capture(stream_ok)
                   /\ cycles' = cycles + 1
              ELSE /\ result' = IF text = <<>> THEN Err("RetryExhausted") ELSE OkSome(text)
                   /\ pc' = "returned"
                   /\ segments' = <<>>
                   /\ cycles' = cycles
                   /\ UNCHANGED << stop_signal, stream, senders, channel, audio_buffer,
                                   state, heard, exit_reason, audio >>
    /\ UNCHANGED << otherVars, configVars, device_on, produced, loop_pc, run_result, scenarioVars >>

\* Variant: an empty text is returned like any other, without a new capture.
Collect_returns_empty ==
    /\ pc = "collect"
    /\ engine_log' = Append(engine_log, segments)
    /\ result' = OkSome(transcribe_text(segments))
    /\ pc' = "returned"
    /\ segments' = <<>>
    /\ UNCHANGED << otherVars, configVars, stop_signal, stream, senders, channel, device_on,
                    produced, audio_buffer, state, heard, exit_reason, audio, cycles,
                    loop_pc, run_result, scenarioVars >>

\* The rest of transcribe and of next(): the segment texts are concatenated and
\* trimmed; an empty text makes next() call itself, any other text is returned.
Collect ==
    /\ pc = "collect"
    /\ LET text == transcribe_text(segments)
       IN  /\ engine_log' = Append(engine_log, segments)
           /\ IF text = <<>>
              THEN /\ \E stream_ok \in BOOLEAN : begin_capture(stream_ok)
                   /\ cycles' = cycles + 1
              ELSE /\ result' = OkSome(text)
                   /\ pc' = "returned"
                   /\ segments' = <<>>
                   /\ cycles' = cycles
                   /\ UNCHANGED << stop_signal, stream, senders, channel, audio_buffer,
                                   state, heard, exit_reason, audio >>
    /\ UNCHANGED << otherVars, configVars, device_on, produced, loop_pc, run_result, scenarioVars >>

\* ---------------------------------------------------------------- run_main_loop
\* run_main_loop returns: the input source is dropped with it, and dropping a
\* VoiceInput calls stop() and releases whatever capture was in progress.  The
\* records kept about the last capture and the last next() call end with it.
leave_loop(res) ==
    /\ loop_pc' = "exited"
    /\ run_result' = res
    /\ stop_signal' = TRUE
    /\ NoCapture
    /\ pc' = "idle"
    /\ audio' = <<>>
    /\ segments' = <<>>
    /\ heard' = <<>>
    /\ exit_reason' = "none"
    /\ cycles' = 0
    /\ engine_log' = <<>>

\* Variant: an Err of next() is announced and the loop goes on to the next turn.
HandleResult_continues_on_error ==
    /\ loop_pc = "select"
    /\ pc = "returned"
    /\ \E sink_ok \in BOOLEAN :
          IF ~sink_ok
          THEN leave_loop("Err") /\ result' = result
          ELSE IF result.kind \in {"Some", "Err"}
               THEN /\ pc' = "idle"
                    /\ result' = NoResult
                    /\ UNCHANGED << loop_pc, run_result, stop_signal, stream, senders,
                                    channel, audio_buffer, state, audio, segments,
                                    heard, exit_reason, cycles, engine_log >>
               ELSE leave_loop("Ok") /\ result' = result
    /\ UNCHANGED << otherVars, configVars, device_on, produced, scenarioVars >>

\* The arm of select! that receives the value of next().  Ok(Some(text)) is
\* processed (an error of the turn is emitted) and the loop goes on; Ok(None)
\* and Err(e) are announced and leave the loop, which flushes and returns Ok.
\* A failing output sink makes run_main_loop return the failure at once.
HandleResult ==
    /\ loop_pc = "select"
    /\ pc = "returned"
    /\ \E sink_ok \in BOOLEAN :
          IF ~sink_ok
          THEN leave_loop("Err") /\ result' = result
          ELSE IF result.kind = "Some"
               THEN /\ pc' = "idle"
                    /\ result' = NoResult
                    /\ UNCHANGED << loop_pc, run_result, stop_signal, stream, senders,
                                    channel, audio_buffer, state, audio, segments,
                                    heard, exit_reason, cycles, engine_log >>
               ELSE leave_loop("Ok") /\ result' = result
    /\ UNCHANGED << otherVars, configVars, device_on, produced, scenarioVars >>

\* The Ctrl+C arm of select!: the next() call in flight, if any, is dropped at
\* its await, the farewell is emitted and the loop is left.
CtrlC ==
    /\ loop_pc = "select"
    /\ pc \in {"idle", "recv"}
    /\ \E sink_ok \in BOOLEAN : leave_loop(IF sink_ok THEN "Ok" ELSE "Err")
    /\ result' = result
    /\ UNCHANGED << otherVars, configVars, device_on, produced, scenarioVars >>

\* ---------------------------------------------------------------- Agent and OllamaClient
\* A text is known by its bytes of leading white space, of body (from the first
\* to the last byte that is not white space) and of trailing white space.
Text(lead, body, trail) == [lead |-> lead, body |-> body, trail |-> trail]

text_len(t) == t.lead + t.body + t.trail

\* text.trim().is_empty()
trim_is_empty(t) == t.body = 0

\* Texts a turn may bring: empty, blank, short, and around the length limit.
Texts ==
    { Text(0, 0, 0), Text(2, 0, 0), Text(0, 1, 0), Text(1, 1, 1),
      Text(1, MAX_INPUT_LENGTH - 1, 0), Text(0, MAX_INPUT_LENGTH, 0),
      Text(0, MAX_INPUT_LENGTH + 1, 0), Text(1, MAX_INPUT_LENGTH - 1, 1),
      Text(MAX_INPUT_LENGTH + 1, 0, 0) }

\* What one request may come to: a response stream, a failure to send or to
\* connect (reqwest::Error, AppError::Http), a status that is not 2xx
\* (AppError::Llm).
RequestOutcomes == {"Ok", "Http", "Llm"}

OkStream == [kind |-> "Stream", text |-> <<>>, err |-> "none"]

\* Variant: the text is only tested for blankness.
validate_input_ignores_length(t) ==
    IF trim_is_empty(t) THEN "InvalidInput" ELSE "none"

\* Agent::validate_input: the error it returns, if any.
validate_input(t) ==
    IF trim_is_empty(t) THEN "InvalidInput"
    ELSE IF text_len(t) > MAX_INPUT_LENGTH THEN "InvalidInput"
    ELSE "none"

\* Variant: every error is worth another attempt.
is_retryable_any(e) == e # "none"

\* AppError::is_retryable
is_retryable(e) == e \in {"Http", "Timeout", "ServiceUnavailable"}

\* 100 * 2_u64.pow(attempt - 1): the u64 product, which does not overflow for
\* the attempts of the model (it would from attempt 59 on).
retry_delay(a) == RetryBaseDelayMs * 2 ^ (a - 1)

\* The head of the for loop of chat_stream_with_retry with attempt = a: the
\* body runs while a <= max_retries; past the range the function returns
\* last_error, or RetryExhausted when there is none.
loop_head(a, le) ==
    IF a <= max_retries
    THEN /\ chat_pc' = "send"
         /\ chat_result' = NoResult
    ELSE /\ chat_pc' = "done"
         /\ chat_result' = Err(IF le # "none" THEN le ELSE "RetryExhausted")

\* Agent::process up to the first request: validate_input, then the chat of the
\* provider, which refuses a blank prompt and otherwise enters
\* chat_stream_with_retry.
Process ==
    /\ chat_pc \in {"idle", "done"}
    /\ \E t \in Texts :
          /\ input_text' = t
          /\ request_log' = <<>>
          /\ delays' = <<>>
          /\ last_error' = "none"
          /\ IF validate_input(t) # "none"
             THEN /\ chat_result' = Err(validate_input(t))
                  /\ chat_pc' = "done"
                  /\ chat_calls' = 0
                  /\ attempt' = 0
             ELSE /\ chat_calls' = 1
                  /\ IF trim_is_empty(t)
                     THEN /\ chat_result' = Err("InvalidInput")
                          /\ chat_pc' = "done"
                          /\ attempt' = 0
                     ELSE /\ attempt' = 1
                          /\ loop_head(1, "none")
    /\ UNCHANGED << max_retries, voiceVars, notLlmVars >>

\* Variant: the error of the last attempt is reported as RetryExhausted.
SendChatRequest_reports_exhaustion ==
    /\ chat_pc = "send"
    /\ \E outcome \in RequestOutcomes :
          /\ request_log' = Append(request_log, outcome)
          /\ IF outcome = "Ok"
             THEN /\ chat_result' = OkStream
                  /\ chat_pc' = "done"
                  /\ UNCHANGED << last_error, delays >>
             ELSE IF is_retryable(outcome) /\ attempt < max_retries
             THEN /\ last_error' = outcome
                  /\ delays' = Append(delays, retry_delay(attempt))
                  /\ chat_pc' = "sleep"
                  /\ chat_result' = chat_result
             ELSE /\ chat_result' = Err(IF is_retryable(outcome) THEN "RetryExhausted"
                                        ELSE outcome)
                  /\ chat_pc' = "done"
                  /\ UNCHANGED << last_error, delays >>
    /\ UNCHANGED << max_retries, input_text, chat_calls, attempt, voiceVars,
                    notLlmVars >>

\* One pass through the body of the loop, from send_chat_request to its
\* return or to the sleep: a stream is returned; a retryable error before the
\* last attempt is kept and the delay of the attempt is slept; any other error
\* is returned.
SendChatRequest ==
    /\ chat_pc = "send"
    /\ \E outcome \in RequestOutcomes :
          /\ request_log' = Append(request_log, outcome)
          /\ IF outcome = "Ok"
             THEN /\ chat_result' = OkStream
                  /\ chat_pc' = "done"
                  /\ UNCHANGED << last_error, delays >>
             ELSE IF is_retryable(outcome) /\ attempt < max_retries
             THEN /\ last_error' = outcome
                  /\ delays' = Append(delays, retry_delay(attempt))
                  /\ chat_pc' = "sleep"
                  /\ chat_result' = chat_result
             ELSE /\ chat_result' = Err(outcome)
                  /\ chat_pc' = "done"
                  /\ UNCHANGED << last_error, delays >>
    /\ UNCHANGED << max_retries, input_text, chat_calls, attempt, voiceVars,
                    notLlmVars >>

\* The sleep is over: the loop goes to its next attempt.
SleepOver ==
    /\ chat_pc = "sleep"
    /\ attempt' = attempt + 1
    /\ loop_head(attempt + 1, last_error)
    /\ UNCHANGED << max_retries, input_text, chat_calls, last_error, request_log, delays,
                    voiceVars, notLlmVars >>

\* No call of Agent::process has been made.
LlmIdle ==
    /\ input_text = Text(0, 0, 0)
    /\ chat_pc = "idle"
    /\ chat_calls = 0
    /\ attempt = 0
    /\ last_error = "none"
    /\ request_log = <<>>
    /\ delays = <<>>
    /\ chat_result = NoResult

\* ---------------------------------------------------------------- TextOutput
\* Bytes are kept in runs: the n bytes of the text of call k, the newline that
\* emit adds, the escape sequences emit_error puts around its text.
Bytes(k, n) == IF n = 0 THEN <<>> ELSE << [call |-> k, part |-> "text", n |-> n] >>

Newline(k) == << [call |-> k, part |-> "newline", n |-> 1] >>

ErrorLine(k, n) ==
    << [call |-> k, part |-> "prefix", n |-> 12] >> \o Bytes(k, n)
        \o << [call |-> k, part |-> "suffix", n |-> 5] >>

RECURSIVE ByteLen(_)
ByteLen(bytes) == IF bytes = <<>> THEN 0 ELSE Head(bytes).n + ByteLen(Tail(bytes))

\* Lengths of the texts a call may bring.
TextSizes == {0, 1, FLUSH_THRESHOLD - 1, FLUSH_THRESHOLD}

\* Variant: the buffer is flushed only once it holds more than the threshold.
flush_needed_strict(buf) == ByteLen(buf) > FLUSH_THRESHOLD

\* emit_chunk: self.buffer.len() >= Self::FLUSH_THRESHOLD
flush_needed(buf) == ByteLen(buf) >= FLUSH_THRESHOLD

\* flush_buffer on a buffer holding buf: nothing is done for an empty buffer;
\* otherwise the buffer is written and flushed to stdout and then cleared.  A
\* failure leaves the buffer as it is, after the write of all of it (the flush
\* failed) or of none of it.
flush_buffer(buf, ok) ==
    IF buf = <<>>
    THEN /\ buffer' = buf
         /\ stdout' = stdout
    ELSE IF ok
    THEN /\ stdout' = stdout \o buf
         /\ buffer' = <<>>
    ELSE /\ \E written \in {<<>>, buf} : stdout' = stdout \o written
         /\ buffer' = buf

\* What every call on the TextOutput does besides its own work.
called(name) ==
    /\ ~io_failed
    /\ call_no < MaxCalls
    /\ call_no' = call_no + 1
    /\ last_call' = name
    /\ UNCHANGED << voiceVars, notOutVars >>

\* TextOutput::emit
Emit ==
    /\ called("emit")
    /\ \E n \in TextSizes, ok \in BOOLEAN :
          LET bytes == Bytes(call_no + 1, n) \o Newline(call_no + 1)
          IN  /\ emitted' = emitted \o bytes
              /\ flush_buffer(buffer \o bytes, ok)
              /\ io_failed' = ~ok
    /\ stderr' = stderr

\* TextOutput::emit_chunk
EmitChunk ==
    /\ called("emit_chunk")
    /\ \E n \in TextSizes, ok \in BOOLEAN :
          LET bytes == Bytes(call_no + 1, n)
          IN  /\ emitted' = emitted \o bytes
              /\ IF flush_needed(buffer \o bytes)
                 THEN /\ flush_buffer(buffer \o bytes, ok)
                      /\ io_failed' = ~ok
                 ELSE /\ buffer' = buffer \o bytes
                      /\ stdout' = stdout
                      /\ io_failed' = FALSE
    /\ stderr' = stderr

\* Variant: the error goes to stderr with the buffer left as it is.
EmitError_without_flush ==
    /\ called("emit_error")
    /\ \E n \in TextSizes, ok \in BOOLEAN :
          /\ UNCHANGED << buffer, stdout >>
          /\ io_failed' = ~ok
          /\ stderr' = IF ok THEN stderr \o ErrorLine(call_no + 1, n) ELSE stderr
    /\ emitted' = emitted

\* TextOutput::emit_error: the buffer is flushed to stdout, then the error is
\* written to stderr; a failed flush returns before anything is written there.
EmitError ==
    /\ called("emit_error")
    /\ \E n \in TextSizes, ok \in BOOLEAN, err_ok \in BOOLEAN :
          /\ flush_buffer(buffer, ok)
          /\ io_failed' = ((buffer # <<>> /\ ~ok) \/ ~err_ok)
          /\ stderr' = IF (buffer = <<>> \/ ok) /\ err_ok
                       THEN stderr \o ErrorLine(call_no + 1, n) ELSE stderr
    /\ emitted' = emitted

\* TextOutput::flush
Flush ==
    /\ called("flush")
    /\ \E ok \in BOOLEAN :
          /\ flush_buffer(buffer, ok)
          /\ io_failed' = (buffer # <<>> /\ ~ok)
    /\ UNCHANGED << stderr, emitted >>

\* TextOutput::new
OutIdle ==
    /\ buffer = <<>>
    /\ stdout = <<>>
    /\ stderr = <<>>
    /\ emitted = <<>>
    /\ last_call = "none"
    /\ call_no = 0
    /\ io_failed = FALSE

\* ---------------------------------------------------------------- run_main_loop, turn by turn
\* What process_user_input may return: Ok, or the error of the validation of
\* the input, of the request (Llm, Http, RetryExhausted), of an item of the
\* response stream, or of the output sink.
TurnOutcomes == {"Ok", "InvalidInput", "Llm", "Http", "RetryExhausted", "StreamItem", "Io"}

Call(name, ok) == [call |-> name, ok |-> ok]

\* The calls made one after the other, each with `?`: the calls up to the
\* first that fails, that one included, and all of them when none fails.
RECURSIVE Attempted(_)
Attempted(calls) ==
    IF calls = <<>> THEN <<>>
    ELSE IF ~Head(calls).ok THEN << Head(calls) >>
    ELSE << Head(calls) >> \o Attempted(Tail(calls))

AllOk(calls) == \A i \in 1..Len(calls) : calls[i].ok

\* The end of a pass of the loop that has made the calls given: a failed call
\* returns its error from run_main_loop; otherwise the loop goes on, or on a
\* break flushes the sink and returns Ok.
pass_end(calls, brk, cause) ==
    /\ sink_calls' = Attempted(calls)
    /\ IF ~AllOk(calls)
       THEN /\ loop_pc' = "exited"
            /\ run_result' = "Err"
            /\ exit_cause' = "sink"
       ELSE IF brk
       THEN /\ loop_pc' = "exited"
            /\ run_result' = "Ok"
            /\ exit_cause' = cause
       ELSE /\ loop_pc' = "select"
            /\ run_result' = run_result
            /\ exit_cause' = exit_cause

\* The Ctrl+C arm of select!: the farewell, break, and the flush after the loop.
SessionCtrlC ==
    /\ loop_pc = "select"
    /\ \E emit_ok \in BOOLEAN, flush_ok \in BOOLEAN :
          pass_end(<< Call("emit", emit_ok), Call("flush", flush_ok) >>, TRUE, "ctrl_c")
    /\ UNCHANGED << turns, turn_outcome, inputVars, llmVars, outVars >>

\* Variant: the error of a turn is announced and ends the loop.
TakeTurn_ends_on_error ==
    /\ loop_pc = "select"
    /\ turns < MaxTurns
    /\ turns' = turns + 1
    /\ \E outcome \in TurnOutcomes :
          /\ turn_outcome' = outcome
          /\ IF outcome = "Ok"
             THEN pass_end(<<>>, FALSE, "none")
             ELSE \E error_ok \in BOOLEAN, flush_ok \in BOOLEAN :
                     pass_end(<< Call("emit_error", error_ok), Call("flush", flush_ok) >>,
                              TRUE, "turn_err")
    /\ UNCHANGED << inputVars, llmVars, outVars >>

\* The arm of select! for Ok(Some(text)): process_user_input runs; when it
\* returns an error the error is emitted, then an empty line, and the loop
\* goes on.
TakeTurn ==
    /\ loop_pc = "select"
    /\ turns < MaxTurns
    /\ turns' = turns + 1
    /\ \E outcome \in TurnOutcomes :
          /\ turn_outcome' = outcome
          /\ IF outcome = "Ok"
             THEN pass_end(<<>>, FALSE, "none")
             ELSE \E error_ok \in BOOLEAN, emit_ok \in BOOLEAN :
                     pass_end(<< Call("emit_error", error_ok), Call("emit", emit_ok) >>,
                              FALSE, "none")
    /\ UNCHANGED << inputVars, llmVars, outVars >>

\* The arm of select! for Ok(None): the farewell, break, and the flush.
InputEnds ==
    /\ loop_pc = "select"
    /\ \E emit_ok \in BOOLEAN, flush_ok \in BOOLEAN :
          pass_end(<< Call("emit", emit_ok), Call("flush", flush_ok) >>, TRUE, "eof")
    /\ UNCHANGED << turns, turn_outcome, inputVars, llmVars, outVars >>

\* The arm of select! for Err(e): the error is emitted, break, and the flush.
InputFails ==
    /\ loop_pc = "select"
    /\ \E error_ok \in BOOLEAN, flush_ok \in BOOLEAN :
          pass_end(<< Call("emit_error", error_ok), Call("flush", flush_ok) >>, TRUE,
                   "input_err")
    /\ UNCHANGED << turns, turn_outcome, inputVars, llmVars, outVars >>

\* run_main_loop has not taken a turn.
SessIdle ==
    /\ exit_cause = "none"
    /\ turns = 0
    /\ turn_outcome = "none"
    /\ sink_calls = <<>>

\* What is outside the voice input does nothing.
OtherIdle ==
    /\ max_retries = MaxRetries
    /\ LlmIdle
    /\ OutIdle
    /\ SessIdle


\* ---------------------------------------------------------------- specification
\* A configuration passes validation with positive durations; the sample
\* counts derived from them by truncation can be any natural number.
Init ==
    /\ OtherIdle
    /\ silence_threshold_sample \in 0..MaxSilence
    /\ max_samples \in 0..MaxCap
    /\ device_sample_rate \in DeviceRates
    /\ stop_signal = FALSE
    /\ stream = "none"
    /\ senders = 0
    /\ channel = <<>>
    /\ device_on = TRUE
    /\ produced = 0
    /\ audio_buffer = <<>>
    /\ state = WaitingForVoice
    /\ heard = <<>>
    /\ exit_reason = "none"
    /\ pc = "idle"
    /\ audio = <<>>
    /\ segments = <<>>
    /\ result = NoResult
    /\ cycles = 0
    /\ engine_log = <<>>
    /\ loop_pc = "select"
    /\ run_result = "none"
    /\ scenario = <<>>
    /\ script = <<>>

Next ==
    \/ CallNext
    \/ AudioCallback
    \/ DeviceStops
    \/ Stop
    \/ RecvChunk
    \/ AfterLoop
    \/ Transcribe
    \/ Collect
    \/ HandleResult
    \/ CtrlC

Spec == Init /\ [][Next]_vars

\* ---------------------------------------------------------------- scripted scenario
\* The segmenter fed a fixed sequence: 2 silent chunks, 3 voiced chunks and n
\* silent chunks, all of one length, with n * length >= silence threshold and a
\* cap no buffer of the scenario reaches.
Uniform(len, a) == [i \in 1..len |-> a]

IsSilentInput(c) == SumSq(c) <= ENERGY_THRESHOLD * ENERGY_THRESHOLD * Len(c)

SilentPool(len) == { Uniform(len, 0), Uniform(len, 1) }
VoicedPool(len) == { Uniform(len, 2), [i \in 1..len |-> IF i = 1 THEN 2 ELSE 1] }

ScenarioScripts(len, n) ==
    { s \in [1..(5 + n) -> SilentPool(len) \cup VoicedPool(len)] :
         /\ \A i \in 1..2 : s[i] \in SilentPool(len)
         /\ \A i \in 3..5 : s[i] \in VoicedPool(len)
         /\ \A i \in 6..(5 + n) : s[i] \in SilentPool(len) }

ScenarioInit ==
    /\ OtherIdle
    /\ \E len \in 1..MaxChunkLen, n \in 1..MaxN :
          /\ scenario \in ScenarioScripts(len, n)
          /\ silence_threshold_sample \in 0..(n * len)
    /\ script = scenario
    /\ max_samples = (3 + MaxN) * MaxChunkLen + 1
    /\ device_sample_rate = WHISPER_SAMPLE_RATE
    /\ stop_signal = FALSE
    /\ stream = "playing"
    /\ senders = 2
    /\ channel = <<>>
    /\ device_on = TRUE
    /\ produced = 0
    /\ audio_buffer = <<>>
    /\ state = WaitingForVoice
    /\ heard = <<>>
    /\ exit_reason = "none"
    /\ pc = "recv"
    /\ audio = <<>>
    /\ segments = <<>>
    /\ result = NoResult
    /\ cycles = 1
    /\ engine_log = <<>>
    /\ loop_pc = "select"
    /\ run_result = "none"

\* The input callback delivering the next chunk of the script.
ScriptedCallback ==
    /\ stream = "playing"
    /\ script # <<>>
    /\ channel' = try_send(channel, Head(script))
    /\ script' = Tail(script)
    /\ produced' = produced + 1
    /\ UNCHANGED << otherVars, configVars, stop_signal, stream, senders, device_on, audio_buffer,
                    state, heard, exit_reason, pc, audio, segments, result, cycles,
                    engine_log, loop_pc, run_result, scenario >>

ScenarioNext ==
    \/ ScriptedCallback
    \/ RecvChunk

ScenarioSpec == ScenarioInit /\ [][ScenarioNext]_vars

\* ---------------------------------------------------------------- flooded channel
\* The device delivers more hardware buffers than the channel holds while the
\* receive loop runs at any pace.  Every buffer differs from the others, so
\* that a chunk is known by its content: the i-th is one sample of amplitude i,
\* voiced from the second on, except every fourth, which is i/4 samples of
\* silence.  Two silent chunks never follow each other, so only the cap ends
\* the loop.
FloodLen == ChannelCapacity + MaxOverflow

FloodScript ==
    [i \in 1..FloodLen |-> IF i % 4 = 0 THEN Uniform(i \div 4, 0) ELSE << i >>]

RECURSIVE TotalLen(_)
TotalLen(chunks) ==
    IF chunks = <<>> THEN 0 ELSE Len(Head(chunks)) + TotalLen(Tail(chunks))

FloodInit ==
    /\ OtherIdle
    /\ scenario = FloodScript
    /\ script = scenario
    /\ silence_threshold_sample \in 0..MaxSilence
    /\ max_samples \in {MaxCap, TotalLen(FloodScript) + 1}
    /\ device_sample_rate = WHISPER_SAMPLE_RATE
    /\ stop_signal = FALSE
    /\ stream = "playing"
    /\ senders = 2
    /\ channel = <<>>
    /\ device_on = TRUE
    /\ produced = 0
    /\ audio_buffer = <<>>
    /\ state = WaitingForVoice
    /\ heard = <<>>
    /\ exit_reason = "none"
    /\ pc = "recv"
    /\ audio = <<>>
    /\ segments = <<>>
    /\ result = NoResult
    /\ cycles = 1
    /\ engine_log = <<>>
    /\ loop_pc = "select"
    /\ run_result = "none"

FloodNext ==
    \/ ScriptedCallback
    \/ RecvChunk

FloodSpec == FloodInit /\ [][FloodNext]_vars

\* ---------------------------------------------------------------- resampler alone
\* record_audio right after its loop, for a device of any common rate and a
\* segment of any length up to MaxResampleLen: one voiced chunk was received
\* and reached the cap.
ResampleRates == {8000, 16000, 22050, 44100, 48000}

Ramp(len) == [i \in 1..len |-> (2 * i) % 3]

ResampleInit ==
    /\ OtherIdle
    /\ device_sample_rate \in ResampleRates
    /\ \E len \in 1..MaxResampleLen :
          /\ audio_buffer \in {Uniform(len, 2), Ramp(len)}
          /\ max_samples = len
    /\ heard = << audio_buffer >>
    /\ silence_threshold_sample = 0
    /\ stop_signal = FALSE
    /\ stream = "playing"
    /\ senders = 2
    /\ channel = <<>>
    /\ device_on = TRUE
    /\ produced = 1
    /\ state = Recording
    /\ exit_reason = "cap"
    /\ pc = "after_loop"
    /\ audio = <<>>
    /\ segments = <<>>
    /\ result = NoResult
    /\ cycles = 1
    /\ engine_log = <<>>
    /\ loop_pc = "select"
    /\ run_result = "none"
    /\ scenario = <<>>
    /\ script = <<>>

ResampleNext == AfterLoop

ResampleSpec == ResampleInit /\ [][ResampleNext]_vars

\* ---------------------------------------------------------------- segmenter alone
\* One capture from its start, the device delivering any chunks, with a cap
\* that is either small or out of reach of what the device delivers.
SegmenterInit ==
    /\ OtherIdle
    /\ silence_threshold_sample \in 0..MaxSilence
    /\ max_samples \in (0..MaxCap) \cup {MaxProduced * MaxChunkLen + 1}
    /\ device_sample_rate = WHISPER_SAMPLE_RATE
    /\ stop_signal = FALSE
    /\ stream = "playing"
    /\ senders = 2
    /\ channel = <<>>
    /\ device_on = TRUE
    /\ produced = 0
    /\ audio_buffer = <<>>
    /\ state = WaitingForVoice
    /\ heard = <<>>
    /\ exit_reason = "none"
    /\ pc = "recv"
    /\ audio = <<>>
    /\ segments = <<>>
    /\ result = NoResult
    /\ cycles = 1
    /\ engine_log = <<>>
    /\ loop_pc = "select"
    /\ run_result = "none"
    /\ scenario = <<>>
    /\ script = <<>>

SegmenterNext ==
    \/ AudioCallback
    \/ RecvChunk

SegmenterSpec == SegmenterInit /\ [][SegmenterNext]_vars

\* ---------------------------------------------------------------- Agent::process alone
\* The voice input at rest, for the specifications of the other parts.
VoiceIdle ==
    /\ silence_threshold_sample = MaxSilence
    /\ max_samples = MaxCap
    /\ device_sample_rate = WHISPER_SAMPLE_RATE
    /\ stop_signal = FALSE
    /\ stream = "none"
    /\ senders = 0
    /\ channel = <<>>
    /\ device_on = TRUE
    /\ produced = 0
    /\ audio_buffer = <<>>
    /\ state = WaitingForVoice
    /\ heard = <<>>
    /\ exit_reason = "none"
    /\ pc = "idle"
    /\ audio = <<>>
    /\ segments = <<>>
    /\ result = NoResult
    /\ cycles = 0
    /\ engine_log = <<>>
    /\ loop_pc = "select"
    /\ run_result = "none"
    /\ scenario = <<>>
    /\ script = <<>>

\* max_retries is any u32 the configuration holds, 0 included: it is not
\* validated.
RetryInit ==
    /\ VoiceIdle
    /\ max_retries \in 0..MaxRetries
    /\ LlmIdle
    /\ OutIdle
    /\ SessIdle

RetryNext ==
    \/ Process
    \/ SendChatRequest
    \/ SleepOver

RetrySpec == RetryInit /\ [][RetryNext]_vars

\* ---------------------------------------------------------------- TextOutput alone
OutputInit ==
    /\ VoiceIdle
    /\ max_retries = MaxRetries
    /\ LlmIdle
    /\ OutIdle
    /\ SessIdle

OutputNext ==
    \/ Emit
    \/ EmitChunk
    \/ EmitError
    \/ Flush

OutputSpec == OutputInit /\ [][OutputNext]_vars

\* ---------------------------------------------------------------- run_main_loop alone
SessionInit ==
    /\ VoiceIdle
    /\ OtherIdle

SessionNext ==
    \/ SessionCtrlC
    \/ TakeTurn
    \/ InputEnds
    \/ InputFails

SessionSpec == SessionInit /\ [][SessionNext]_vars

\* ================================================================ properties
RECURSIVE Flatten(_)
Flatten(chunks) ==
    IF chunks = <<>> THEN <<>> ELSE Head(chunks) \o Flatten(Tail(chunks))

AllSilent(chunks) == \A i \in 1..Len(chunks) : IsSilentInput(chunks[i])

Blank(segs) ==
    \A i \in 1..Len(segs) :
        segs[i].ok => \A j \in 1..Len(segs[i].text) : segs[i].text[j] \in WhiteSpace

InCapture == pc \in {"recv", "after_loop"}

\* C1: when the stop signal is observed on the first chunk a capture receives
\* (stop() came after next() started and before any chunk was received), next()
\* returns Ok(None), not an error, and the stream of the capture is gone by then.
C1_StopBeforeFirstChunkReturnsNone ==
    (pc = "returned" /\ exit_reason = "stop" /\ heard = <<>>)
        => (result = OkNone /\ stream = "none")

\* C2: a capture whose loop ended on the stop flag is discarded: its samples
\* are never resampled, transcribed or returned as an utterance.
C2_StoppedCaptureDiscarded ==
    exit_reason = "stop"
        => /\ pc \notin {"transcribe", "collect"}
           /\ ~(pc = "returned" /\ result.kind = "Some")

\* C3: as long as every chunk the capture has processed has an energy <= the
\* threshold (equal counts as silent), the segmenter is in WaitingForVoice and
\* the buffer is empty.
C3_SilentChunksStayWaiting ==
    (InCapture /\ AllSilent(heard))
        => (state = WaitingForVoice /\ audio_buffer = <<>>)

C3_Witness ==
    /\ pc = "recv"
    /\ Len(heard) >= 2
    /\ AllSilent(heard)
    /\ \E i \in 1..Len(heard) : heard[i] = <<1>>
    /\ \E i \in 1..Len(heard) : heard[i] = <<>>

\* C4: a capture that has heard only silent chunks is never left waiting for
\* a chunk once the producer has stopped and the channel is drained: the
\* receive returns (channel closed) and the loop can end with "no audio".
C4_SilentCaptureEnds ==
    (pc = "recv" /\ ~device_on /\ channel = <<>> /\ heard # <<>> /\ AllSilent(heard))
        => ENABLED RecvChunk

\* The scripted scenario: its chunk length, its number of trailing silent
\* chunks, and the trailing silent chunk at which the silence arm ends the loop.
ScenarioLen == Len(scenario[1])
ScenarioN == Len(scenario) - 5
ScenarioFed == script = <<>> /\ channel = <<>>
ScenarioK ==
    IF CeilDiv(silence_threshold_sample, ScenarioLen) < 2
    THEN 2 ELSE CeilDiv(silence_threshold_sample, ScenarioLen)

\* C5 as stated: for every N >= 1 with N * chunk_len >= silence threshold, once
\* the 2 silent, 3 voiced and N silent chunks are fed the loop has ended by
\* silence detection with exactly the chunks from the first voiced one onward.
C5_ScenarioEndsForEveryN ==
    ScenarioFed
        => /\ pc = "after_loop"
           /\ exit_reason = "silence"
           /\ audio_buffer = Flatten(SubSeq(scenario, 3, Len(scenario)))

\* C5 amended: the loop ends, by silence detection, exactly at the K-th
\* trailing silent chunk, K = max(2, ceil(threshold / chunk_len)), with the 3
\* voiced chunks and the first K trailing silent chunks in order and without
\* the 2 leading silent chunks; so it ends for every N >= 2, and with N = 1 it
\* is still waiting for a chunk after the whole sequence.
C5_ScenarioEndsAtKthSilentChunk ==
    /\ pc = "after_loop"
          => /\ exit_reason = "silence"
             /\ heard = SubSeq(scenario, 1, 5 + ScenarioK)
             /\ audio_buffer = Flatten(SubSeq(scenario, 3, 5 + ScenarioK))
    /\ pc = "recv" => Len(heard) < 5 + ScenarioK
    /\ (ScenarioN >= 2 /\ ScenarioFed) => pc = "after_loop"
    /\ (ScenarioN = 1 /\ ScenarioFed)
          => (pc = "recv" /\ state = SilenceDetected(ScenarioLen))

C5_Witness ==
    /\ pc = "after_loop"
    /\ exit_reason = "silence"
    /\ ScenarioK = 3
    /\ ScenarioN = 3
    /\ scenario[1] # scenario[2]
    /\ scenario[6] # scenario[7]
    /\ audio_buffer = Flatten(SubSeq(scenario, 3, 8))

\* C6 as stated: the loop never waits for a chunk with a buffer at or over the
\* cap, and a loop ended by the cap leaves a buffer of length L with
\* max_samples <= L < max_samples + (length of the last chunk), which is handed
\* on rather than rejected as "no audio signal".
C6_CapExit ==
    exit_reason = "cap"
        => /\ pc = "after_loop"
              => /\ audio_buffer # <<>>
                 /\ Len(audio_buffer) >= max_samples
                 /\ Len(audio_buffer) < max_samples + Len(heard[Len(heard)])
           /\ ~(pc = "returned" /\ result = Err("NoSignal"))

C6_CapEndsLoopAtOnce ==
    (pc = "recv" /\ heard # <<>>) => Len(audio_buffer) < max_samples

C6_CapTruncatesForEveryCap == C6_CapEndsLoopAtOnce /\ C6_CapExit

\* C6 amended: the same, for a cap of at least one sample.
C6_CapTruncatesForPositiveCap ==
    C6_CapEndsLoopAtOnce /\ (max_samples >= 1 => C6_CapExit)

C6_Witness ==
    /\ pc = "after_loop"
    /\ exit_reason = "cap"
    /\ state.tag = "SilenceDetected"
    /\ state.silence_sample < silence_threshold_sample
    /\ max_samples >= 1
    /\ Len(heard) >= 3
    /\ Len(audio_buffer) = max_samples

\* C7: every chunk processed in Recording or SilenceDetected is appended whole,
\* and the buffer never shrinks while the loop runs.
C7_Step ==
    /\ (pc = "recv" /\ state.tag \in {"Recording", "SilenceDetected"}
           /\ Len(heard') = Len(heard) + 1)
          => audio_buffer' = audio_buffer \o heard'[Len(heard')]
    /\ (pc = "recv" /\ pc' \in {"recv", "after_loop"})
          => Len(audio_buffer') >= Len(audio_buffer)

C7_BufferOnlyGrows == [][C7_Step]_vars

C7_Witness ==
    /\ InCapture
    /\ Len(heard) = 4
    /\ IsSilentInput(heard[1])
    /\ ~IsSilentInput(heard[2])
    /\ heard[3] = <<1>>
    /\ ~IsSilentInput(heard[4])
    /\ state.tag = "Recording"
    /\ audio_buffer = Flatten(SubSeq(heard, 2, 4))

\* C8: a next() call whose engine answers are blank (empty or whitespace only)
\* k times and then a text t runs exactly k + 1 captures, one inference per
\* capture, and returns Ok(Some(trim(t))); every capture it starts begins with
\* the stop signal reset.
C8_State ==
    /\ pc \in {"recv", "after_loop", "transcribe", "collect"}
          => /\ cycles = Len(engine_log) + 1
             /\ \A i \in 1..Len(engine_log) : Blank(engine_log[i])
    /\ (pc = "returned" /\ result.kind = "Some")
          => LET n == Len(engine_log)
             IN  /\ n >= 1
                 /\ cycles = n
                 /\ \A i \in 1..(n - 1) : Blank(engine_log[i])
                 /\ ~Blank(engine_log[n])
                 /\ result.text = Trim(push_segments(engine_log[n]))

C8_Step ==
    (pc' = "recv" /\ pc # "recv")
        => /\ stop_signal' = FALSE
           /\ stream' = "playing"
           /\ cycles' = IF pc = "idle" THEN 1 ELSE cycles + 1

C8_EmptyTextRetries == [](C8_State) /\ [][C8_Step]_vars

C8_Witness ==
    /\ pc = "returned"
    /\ result = OkSome(<<"o", "k">>)
    /\ cycles = 2
    /\ engine_log = << <<>>, << T(<<"o", "k">>) >> >>

\* C9: a text returned by next() is never empty, has no white space at either
\* end, and is the trimmed in-order concatenation of the segment texts of the
\* inference it comes from.
C9_NoEmptyTurn ==
    result.kind = "Some"
        => /\ result.text # <<>>
           /\ Head(result.text) \notin WhiteSpace
           /\ result.text[Len(result.text)] \notin WhiteSpace
           /\ pc = "returned"
                 => /\ engine_log # <<>>
                    /\ result.text = Trim(push_segments(engine_log[Len(engine_log)]))

C9_Witness ==
    /\ pc = "returned"
    /\ result = OkSome(<<"o", " ", "k">>)
    /\ engine_log[Len(engine_log)] = << T(<<"o", " ">>), T(<<"k", "\n">>) >>

\* C10 as stated: after next() reports a capture with no samples, the
\* interaction loop goes on and asks for the next utterance.
C10_NoSignalHandled == pc = "returned" /\ result = Err("NoSignal") /\ pc' # "returned"

C11_QueueBounded == Len(channel) <= ChannelCapacity

C11_CallbackReady == (stream = "playing" /\ script # <<>>) => ENABLED ScriptedCallback

C11_Step ==
    script' # script =>
        /\ produced' = produced + 1
        /\ channel' = IF Len(channel) = ChannelCapacity THEN channel
                      ELSE Append(channel, Head(script))
        /\ UNCHANGED << audio_buffer, state, heard, exit_reason, pc >>

\* C11: a callback is one send that never waits for room: it can run whenever
\* the stream plays, whatever the channel holds; on a full channel the new chunk
\* is lost and the queued chunks stay as they were, otherwise the chunk goes
\* behind them; the channel never holds more than its capacity.
C11_TrySendDropsNewest ==
    [](C11_QueueBounded /\ C11_CallbackReady) /\ [][C11_Step]_vars

\* One chunk has been lost on a full channel: one more callback than the
\* capacity has run, nothing has been received, the channel is full.
C11_Witness ==
    /\ produced = ChannelCapacity + 1
    /\ Len(channel) = ChannelCapacity
    /\ heard = <<>>
    /\ channel = SubSeq(scenario, 1, ChannelCapacity)

\* ---------------------------------------------------------------- C12
RECURSIVE IsSubseq(_, _)
IsSubseq(a, b) ==
    IF a = <<>> THEN TRUE
    ELSE IF b = <<>> THEN FALSE
    ELSE IF Head(a) = Head(b) THEN IsSubseq(Tail(a), Tail(b))
    ELSE IsSubseq(a, Tail(b))

RECURSIVE FromFirstVoiced(_)
FromFirstVoiced(chunks) ==
    IF chunks = <<>> THEN <<>>
    ELSE IF has_voice(Head(chunks)) THEN chunks
    ELSE FromFirstVoiced(Tail(chunks))

C12_State ==
    /\ IsSubseq(heard \o channel, SubSeq(scenario, 1, produced))
    /\ produced <= ChannelCapacity => heard \o channel = SubSeq(scenario, 1, produced)
    /\ audio_buffer = Flatten(FromFirstVoiced(heard))

C12_Step ==
    heard' # heard =>
        /\ heard' = Append(heard, Head(channel))
        /\ channel' = Tail(channel)

\* C12: the chunks received so far followed by the chunks still queued are, in
\* the order of production and each at most once, chunks the device produced,
\* and all of them as long as no more were produced than the channel holds; a
\* receive takes the oldest queued chunk; the segment buffer is the received
\* chunks from the first voiced one on, concatenated in the order received.
C12_ReceivedInProductionOrder == [](C12_State) /\ [][C12_Step]_vars

\* A chunk was lost on the full channel and the chunk produced after it has
\* been received right behind the chunks produced before it.
C12_Witness ==
    /\ Len(heard) = ChannelCapacity + 1
    /\ heard[ChannelCapacity + 1] = scenario[ChannelCapacity + 2]
    /\ SubSeq(heard, 1, ChannelCapacity) = SubSeq(scenario, 1, ChannelCapacity)
    /\ Len(audio_buffer) > ChannelCapacity

\* ---------------------------------------------------------------- C13
C13_State ==
    /\ stream = "playing" => (pc \in {"recv", "after_loop"} /\ loop_pc = "select")
    /\ pc = "recv" => stream = "playing"

C13_Step ==
    /\ (pc' = "recv" /\ pc # "recv") => (stream = "none" /\ stream' = "playing")
    /\ (pc = "after_loop" /\ pc' # "after_loop") => stream' = "none"
    /\ (pc \in {"idle", "collect"} /\ pc' = "returned") => stream' = "none"
    /\ loop_pc' = "exited" => stream' = "none"

\* C13: a stream is live only while its capture is in the receive loop or has
\* just left it, and the capture then tears it down before anything else
\* happens in next(): after a silence end, a cap, a stop, a failed start and
\* when the loop is left on Ctrl+C no stream is live; every capture, the retry
\* after an empty transcription included, begins when no stream is live.
C13_OneStreamAtATime == [](C13_State) /\ [][C13_Step]_vars

\* The capture of a retry cycle is live and has processed a chunk.
C13_Witness ==
    /\ cycles = 2
    /\ pc = "recv"
    /\ stream = "playing"
    /\ heard # <<>>

\* ---------------------------------------------------------------- C14
C14_Step ==
    /\ pc # "recv" =>
          /\ heard' = heard \/ heard' = <<>>
          /\ audio_buffer' = audio_buffer \/ audio_buffer' = <<>>
    /\ (pc = "after_loop" /\ pc' = "transcribe") =>
          audio' = resample_audio(Flatten(FromFirstVoiced(heard)))
    /\ (pc' = "recv" /\ pc # "recv") =>
          (channel' = <<>> /\ audio_buffer' = <<>> /\ heard' = <<>>)

\* C14: once the receive loop has ended nothing is received any more: the
\* buffer and the record of processed chunks do not grow outside the loop, the
\* audio handed on is made of the chunks processed inside the loop only, and
\* the next capture starts with an empty channel and an empty buffer, so the
\* chunks left in the old channel or pushed after the loop reach no buffer.
C14_LateChunksNeverProcessed == [][C14_Step]_vars

\* The loop has ended with a segment while chunks with samples are still queued
\* and the stream still runs.
C14_Witness ==
    /\ pc = "after_loop"
    /\ exit_reason \in {"silence", "cap"}
    /\ audio_buffer # <<>>
    /\ UnreadSamples # <<>>
    /\ stream = "playing"

\* ---------------------------------------------------------------- C15
\* A segment whose text the engine could not hand over, in any inference of
\* the current call of next().
SegmentReadFailed ==
    \E i \in 1..Len(engine_log) : \E j \in 1..Len(engine_log[i]) : ~engine_log[i][j].ok

\* C15: a failure met during a call of next() other than an empty text or a
\* chunk lost on a full channel is what the call returns: when the text of a
\* segment could not be read, next() returns an Err.
C15_SegmentReadFailureReturned ==
    (pc = "returned" /\ SegmentReadFailed) => result.kind = "Err"

\* ---------------------------------------------------------------- C16
C16_Step ==
    /\ (pc \in {"idle", "collect"} /\ pc' \in {"recv", "returned"} /\ result'.kind # "Some")
          => ~stop_signal'
    /\ (stop_signal /\ ~stop_signal')
          => (pc \in {"idle", "collect"} /\ pc' \in {"recv", "returned"})
    /\ (exit_reason' = "stop" /\ exit_reason # "stop")
          => (pc = "recv" /\ stop_signal /\ channel # <<>> /\ channel' = Tail(channel))
    /\ (pc = "recv" /\ pc' \in {"recv", "after_loop"} /\ Len(channel') < Len(channel))
          => (exit_reason' = "stop" <=> stop_signal)
    /\ heard' # heard /\ heard' # <<>> => ~stop_signal

\* C16: every capture attempt, the one of a retry included, starts by setting
\* the stop signal to false, whether or not its stream starts; nothing else
\* sets it to false, so a signal set between two calls stays set until the
\* next call clears it; the capture tests it once for each chunk it receives,
\* right after receiving it, and nowhere else: only a received chunk ends a
\* capture by stop.
C16_StopResetByEveryAttempt == [][C16_Step]_vars

\* The capture of a retry attempt has received a chunk and found the signal set.
C16_Witness ==
    /\ cycles = 2
    /\ pc = "after_loop"
    /\ exit_reason = "stop"
    /\ stop_signal

\* ---------------------------------------------------------------- C17
C17_State ==
    (pc = "after_loop" /\ device_sample_rate = WHISPER_SAMPLE_RATE) =>
        /\ resample_audio(audio_buffer) = audio_buffer
        /\ resample_audio(resample_audio(audio_buffer)) = resample_audio(audio_buffer)

C17_Step ==
    (pc = "after_loop" /\ pc' # pc /\ device_sample_rate = WHISPER_SAMPLE_RATE) =>
        (pc' = "transcribe" /\ audio' = audio_buffer)

\* C17: when the rate of the device is the rate the engine wants, resampling
\* cannot fail and gives back the segment it was given, sample for sample, so
\* resampling its result again changes nothing.
C17_EqualRatesIdentity == [](C17_State) /\ [][C17_Step]_vars

\* A segment of differing samples has come out of the resampler of a 16 kHz
\* device as it went in.
C17_Witness ==
    /\ pc = "transcribe"
    /\ device_sample_rate = WHISPER_SAMPLE_RATE
    /\ audio = Ramp(MaxResampleLen)
    /\ heard = << audio >>

\* ---------------------------------------------------------------- C18
\* n / d rounded to the nearest integer, halves upwards.
RoundDiv(n, d) == (2 * n + d) \div (2 * d)

C18_Resampled ==
    pc = "after_loop" /\ pc' = "transcribe" /\ device_sample_rate # WHISPER_SAMPLE_RATE

\* C18 as stated: after a conversion between different rates the output has
\* round(N * r2 / r1) samples, N the length of the input.
C18_OutputLengthIsRounded ==
    [][C18_Resampled =>
          Len(audio') = RoundDiv(Len(audio_buffer) * WHISPER_SAMPLE_RATE, device_sample_rate)]_vars

\* C18 amended: after a conversion between different rates the output has
\* N * r2 / r1 samples rounded down, N the length of the input; it is never
\* longer than N * r2 / r1, whatever the padding of the last frame added, and
\* every sample of it comes from the resampler.
C18_OutputLengthIsTruncated ==
    [][C18_Resampled =>
          /\ Len(audio') = (Len(audio_buffer) * WHISPER_SAMPLE_RATE) \div device_sample_rate
          /\ Len(audio') * device_sample_rate <= Len(audio_buffer) * WHISPER_SAMPLE_RATE
          /\ \A i \in 1..Len(audio') : audio'[i] = Resampled]_vars

\* A 48 kHz segment of 5 samples has been resampled to 1 sample (5/3 rounds
\* to 2).
C18_Witness ==
    /\ pc = "transcribe"
    /\ device_sample_rate = 48000
    /\ Len(heard[1]) = 5
    /\ Len(audio) = 1

\* ---------------------------------------------------------------- C19
C19_State ==
    /\ pc = "transcribe" => Flatten(FromFirstVoiced(heard)) # <<>>
    /\ (pc = "returned" /\ result = Err("NoSignal")) => FromFirstVoiced(heard) = <<>>

C19_Step ==
    (pc = "after_loop" /\ pc' # "after_loop") =>
        IF audio_buffer = <<>>
        THEN pc' = "returned" /\ result' = Err("NoSignal") /\ audio' = <<>>
        ELSE \/ pc' = "transcribe" /\ audio' = resample_audio(audio_buffer)
             \/ pc' = "returned" /\ result' = Err("Audio")

\* C19: however the receive loop ended, record_audio goes on to the resampler
\* only with a buffer of at least one sample, and then either hands its output
\* to transcribe or returns its failure; with an empty buffer it returns the
\* "no audio signal" error and the resampler is not run.
C19_ResamplerGetsSamples == [](C19_State) /\ [][C19_Step]_vars

\* A capture ended by the stop signal after voice had been buffered: the buffer
\* went through the resampler and its samples are about to be transcribed.
C19_Witness ==
    /\ pc = "transcribe"
    /\ exit_reason = "stop"
    /\ audio # <<>>
    /\ heard # <<>>

\* ---------------------------------------------------------------- C20
C20_State ==
    (pc = "returned" /\ engine_log # <<>>
        /\ \A i \in 1..Len(engine_log) : Blank(engine_log[i]))
    => (result.kind = "Err" /\ result.err # "RetryExhausted")

C20_Step ==
    (pc = "collect" /\ pc' # "collect" /\ Blank(segments)) =>
        /\ cycles' = cycles + 1
        /\ \/ pc' = "recv" /\ result' = NoResult
           \/ pc' = "returned" /\ result' = Err("Audio")

\* C20: whatever the number of capture cycles a call of next() has made, an
\* empty text starts one more: no count ends the retries.  A call all of whose
\* inferences gave an empty text returns only with the error of a capture or
\* of the engine, so while captures and inferences succeed it does not return.
C20_RetriesWithoutLimit == [](C20_State) /\ [][C20_Step]_vars

\* One call of next() is in a capture cycle for every chunk the device has
\* delivered, each of the earlier cycles having ended in an empty text, and the
\* last one is about to.
C20_Witness ==
    /\ pc = "collect"
    /\ cycles = MaxProduced
    /\ Len(engine_log) = MaxProduced - 1
    /\ Blank(segments)
    /\ \A i \in 1..Len(engine_log) : Blank(engine_log[i])

\* ---------------------------------------------------------------- C21
Last(q) == q[Len(q)]

\* The samples of the silent chunks at the end of a sequence of chunks.
RECURSIVE TrailingSilence(_)
TrailingSilence(chunks) ==
    IF chunks = <<>> \/ has_voice(Last(chunks)) THEN 0
    ELSE Len(Last(chunks)) + TrailingSilence(SubSeq(chunks, 1, Len(chunks) - 1))

C21_State ==
    exit_reason = "silence" =>
        /\ TrailingSilence(heard) >= silence_threshold_sample
        /\ ~has_voice(Last(heard))

C21_Step ==
    (heard' # heard /\ heard' # <<>> /\ state.tag = "SilenceDetected"
        /\ has_voice(Last(heard')))
    => /\ state' = Recording
       /\ audio_buffer' = audio_buffer \o Last(heard')
       /\ exit_reason' # "silence"

\* C21: a voiced chunk received in SilenceDetected is appended and puts the
\* segmenter back in Recording, whatever the count was, and does not end the
\* loop by silence; when the loop ends by silence, the silent chunks received
\* since the last voiced one hold at least silence_threshold_samples samples.
C21_OnlyUnbrokenSilenceEnds == [](C21_State) /\ [][C21_Step]_vars

\* Two silent chunks that together reach the threshold, with a voiced chunk
\* between them: the capture goes on.
C21_Witness ==
    /\ pc = "recv"
    /\ Len(heard) = 4
    /\ has_voice(heard[1]) /\ ~has_voice(heard[2]) /\ has_voice(heard[3]) /\ ~has_voice(heard[4])
    /\ Len(heard[2]) + Len(heard[4]) >= silence_threshold_sample
    /\ silence_threshold_sample > 0
    /\ state = SilenceDetected(Len(heard[4]))

\* ---------------------------------------------------------------- C22
\* The chunks received after the first voiced one.
FurtherChunks ==
    IF FromFirstVoiced(heard) = <<>> THEN <<>> ELSE Tail(FromFirstVoiced(heard))

RECURSIVE MinLen(_)
MinLen(chunks) ==
    IF Len(chunks) = 1 THEN Len(chunks[1])
    ELSE Min(Len(chunks[1]), MinLen(Tail(chunks)))

C22_KeptReceiving ==
    /\ ~stop_signal
    /\ FurtherChunks # <<>>
    /\ \A i \in 1..Len(FurtherChunks) : FurtherChunks[i] # <<>>

\* C22: after the first voiced chunk, a capture that is not stopped and keeps
\* receiving chunks that are not empty has ended by the time it has received
\* ceil(max_samples / m) of them, m their least length: it never receives
\* more, and it is no longer in its loop once it has received that many.
C22_CapBoundsTheCapture ==
    (InCapture /\ C22_KeptReceiving) =>
        /\ Len(FurtherChunks) <= CeilDiv(max_samples, MinLen(FurtherChunks))
        /\ pc = "recv" => Len(FurtherChunks) < CeilDiv(max_samples, MinLen(FurtherChunks))

\* The cap, and no silence, has ended a capture at exactly the
\* ceil(max_samples / m)-th chunk after the first voiced one.
C22_Witness ==
    /\ pc = "after_loop"
    /\ exit_reason = "cap"
    /\ C22_KeptReceiving
    /\ \A i \in 1..Len(heard) : has_voice(heard[i])
    /\ Len(FurtherChunks) = CeilDiv(max_samples, MinLen(FurtherChunks))

\* ---------------------------------------------------------------- C23
\* The segmenter is in SilenceDetected as the match of the loop left it (a
\* break out of the match leaves the state of the chunk before).
C23_InSilenceDetected ==
    InCapture /\ exit_reason # "silence" /\ state.tag = "SilenceDetected"

C23_SingleSilentChunk ==
    Len(heard) >= 2 /\ ~has_voice(Last(heard)) /\ has_voice(heard[Len(heard) - 1])

\* C23 as stated: in SilenceDetected(count), count is the number of samples of
\* the silent chunks received since the last voiced one and is less than the
\* silence threshold.
C23_CountBelowThreshold ==
    C23_InSilenceDetected =>
        /\ state.silence_sample = TrailingSilence(heard)
        /\ state.silence_sample < silence_threshold_sample

\* C23 amended: in SilenceDetected(count), count is the number of samples of
\* the silent chunks received since the last voiced one; it is less than the
\* silence threshold unless those chunks are a single one, which is counted
\* without being compared with the threshold.
C23_CountBelowThresholdAfterTwo ==
    C23_InSilenceDetected =>
        /\ state.silence_sample = TrailingSilence(heard)
        /\ state.silence_sample < silence_threshold_sample \/ C23_SingleSilentChunk

\* Two silent chunks since the last voiced one, counted together and below the
\* threshold.
C23_Witness ==
    /\ pc = "recv"
    /\ state.tag = "SilenceDetected"
    /\ Len(heard) >= 3
    /\ ~has_voice(heard[Len(heard) - 1])
    /\ state.silence_sample >= 1
    /\ state.silence_sample < silence_threshold_sample

\* ---------------------------------------------------------------- C24
Retryable == {"Http", "Timeout", "ServiceUnavailable"}

RECURSIVE Pow2(_)
Pow2(n) == IF n = 0 THEN 1 ELSE 2 * Pow2(n - 1)

C24_State ==
    /\ Len(request_log) <= max_retries
    /\ \A k \in 1..(Len(request_log) - 1) : request_log[k] \in Retryable
    /\ \A k \in 1..Len(delays) : delays[k] = 100 * Pow2(k - 1)
    /\ chat_pc = "send" =>
          (Len(delays) = Len(request_log) /\ attempt = Len(request_log) + 1)
    /\ chat_pc = "sleep" =>
          (Len(delays) = Len(request_log) /\ Last(request_log) \in Retryable)
    /\ (chat_pc = "done" /\ request_log # <<>>) =>
          /\ Len(delays) = Len(request_log) - 1
          /\ chat_result = IF Last(request_log) = "Ok" THEN OkStream
                           ELSE Err(Last(request_log))
          /\ (Last(request_log) \in Retryable) => Len(request_log) = max_retries

\* C24: a call sends at most max_retries requests; every request but the last
\* failed with a retryable error, so the call returns at the first success and
\* at the first error that is not Http, Timeout or ServiceUnavailable, and goes
\* on after a retryable one only while attempts are left; between request k
\* and request k+1 it sleeps once, 100 * 2^(k-1) milliseconds.
C24_AtMostMaxRetriesRequests == C24_State

\* A call that failed twice on a retryable error, slept 100 and 200 ms and
\* succeeded on its third request.
C24_Witness ==
    /\ chat_pc = "done"
    /\ request_log = << "Http", "Http", "Ok" >>
    /\ delays = << 100, 200 >>
    /\ chat_result = OkStream

\* ---------------------------------------------------------------- C25
C25_Returned == chat_pc = "done" /\ chat_calls = 1

\* C25: a call of chat_stream_with_retry returns RetryExhausted exactly when
\* max_retries is 0, and then it has sent no request; with max_retries >= 1 a
\* call all of whose requests failed returns the error of its last request.
C25_ExhaustedOnlyWithoutAttempts ==
    /\ chat_result = Err("RetryExhausted") =>
          (C25_Returned /\ max_retries = 0 /\ request_log = <<>>)
    /\ (C25_Returned /\ max_retries = 0) =>
          (chat_result = Err("RetryExhausted") /\ request_log = <<>>)
    /\ (C25_Returned /\ max_retries >= 1
          /\ \A k \in 1..Len(request_log) : request_log[k] # "Ok")
       => (request_log # <<>> /\ chat_result = Err(Last(request_log)))

\* A client configured with max_retries = 0 has returned RetryExhausted for a
\* valid text without sending anything.
C25_Witness ==
    /\ chat_pc = "done"
    /\ max_retries = 0
    /\ validate_input(input_text) = "none"
    /\ chat_calls = 1
    /\ request_log = <<>>
    /\ chat_result = Err("RetryExhausted")

\* ---------------------------------------------------------------- C27
C27_Acceptable ==
    /\ input_text.body > 0
    /\ input_text.lead + input_text.body + input_text.trail <= MAX_INPUT_LENGTH

\* C27: the chat of the provider is called only for a text that has a byte
\* other than white space and at most 10000 bytes in all, white space
\* included; for any other text the call of process returns InvalidInput
\* without a call of the provider, a request or a sleep.
C27_OnlyValidTextReachesProvider ==
    /\ chat_calls >= 1 => C27_Acceptable
    /\ request_log # <<>> => C27_Acceptable
    /\ (chat_pc # "idle" /\ ~C27_Acceptable) =>
          /\ chat_pc = "done"
          /\ chat_result = Err("InvalidInput")
          /\ chat_calls = 0
          /\ request_log = <<>>
          /\ delays = <<>>

\* A text of 10001 bytes with 9999 bytes between its white space has been
\* refused, while the client could have sent requests.
C27_Witness ==
    /\ chat_pc = "done"
    /\ input_text = Text(1, MAX_INPUT_LENGTH - 1, 1)
    /\ chat_result = Err("InvalidInput")
    /\ chat_calls = 0
    /\ max_retries >= 1

\* ---------------------------------------------------------------- C28
C28_State ==
    ~io_failed =>
        /\ stdout \o buffer = emitted
        /\ last_call \in {"emit", "emit_error", "flush"} => buffer = <<>>
        /\ last_call = "emit_chunk" => ByteLen(buffer) < 1024

C28_Step ==
    (~io_failed' /\ last_call' = "emit_error" /\ call_no' # call_no) =>
        /\ stdout' = stdout \o buffer
        /\ buffer' = <<>>
        /\ \E n \in TextSizes : stderr' = stderr \o ErrorLine(call_no', n)

\* C28: while every call succeeds, what has been written to stdout followed by
\* what the buffer holds is what the calls of emit and emit_chunk were given,
\* in call order, with a newline after the text of each emit; the buffer is
\* empty after emit, emit_error and flush and holds fewer than 1024 bytes
\* after emit_chunk; a successful emit_error has written the whole buffer to
\* stdout and then its line to stderr.
C28_StdoutIsWhatWasEmitted == [](C28_State) /\ [][C28_Step]_vars

\* Chunks that stayed in the buffer were written out by an emit_error, ahead
\* of its line on stderr, and a later chunk is buffered again.
C28_Witness ==
    /\ ~io_failed
    /\ call_no = 4
    /\ last_call = "emit_chunk"
    /\ stderr # <<>>
    /\ buffer # <<>>
    /\ Len(stdout) >= 2
    /\ stdout[1].call = 1 /\ stdout[2].call = 2
    /\ stdout[1].part = "text" /\ stdout[2].part = "text"

\* ---------------------------------------------------------------- C26
C26_SinkFailed == sink_calls # <<>> /\ ~Last(sink_calls).ok

C26_Step ==
    /\ (turns' = turns + 1 /\ turn_outcome' # "Ok" /\ ~C26_SinkFailed') =>
          /\ loop_pc' = "select"
          /\ sink_calls' = << Call("emit_error", TRUE), Call("emit", TRUE) >>
    /\ (turns' = turns + 1 /\ loop_pc' = "exited") =>
          (run_result' = "Err" /\ C26_SinkFailed')
    /\ (loop_pc = "select" /\ loop_pc' = "exited") =>
          \/ run_result' = "Err" /\ C26_SinkFailed'
          \/ /\ run_result' = "Ok"
             /\ exit_cause' \in {"ctrl_c", "eof", "input_err"}
             /\ turns' = turns
             /\ Last(sink_calls') = Call("flush", TRUE)
             /\ \A i \in 1..Len(sink_calls') : sink_calls'[i].ok

\* C26: when process_user_input returns an error, whatever its kind, the loop
\* emits it and an empty line and goes on to the next turn, unless one of the
\* two calls on the sink fails; a pass of the loop that takes a turn leaves
\* the loop only on such a failure; the loop is left with Ok only on Ctrl+C,
\* on Ok(None) and on an Err of the input source, after a flush that
\* succeeded, and otherwise only with the error of a call on the sink.
C26_TurnErrorsDoNotEndSession == [][C26_Step]_vars

\* After the turn before it, the second turn has failed in the middle of its
\* response stream; the error was emitted and the loop is waiting for the
\* next turn.
C26_Witness ==
    /\ loop_pc = "select"
    /\ turns = 2
    /\ turn_outcome = "StreamItem"
    /\ sink_calls = << Call("emit_error", TRUE), Call("emit", TRUE) >>
====
